---- MODULE Spec2Model ----
(***************************************************************************)
(* The Graph Session Store of warnet's front end: the React context        *)
(* provider NodeGraphFlowProvider (contexts/node-flow-context).            *)
(*                                                                         *)
(* The store is seven useState cells.  Every operation is a closure over   *)
(* the cells' values of the last render; React re-renders the provider     *)
(* after each event handler, so an action below is one handler followed by *)
(* that re-render.                                                         *)
(*                                                                         *)
(* JavaScript objects have identity.  Node objects and arrays are never    *)
(* written in place by the store, so they are modelled as values; the      *)
(* `data` object of a node IS written in place (updateNodeInfo), so a      *)
(* node holds a reference into `heap`, and two nodes holding the same      *)
(* reference share their data.                                             *)
(***************************************************************************)
EXTENDS Integers, Sequences, FiniteSets, TLC

(***************************************************************************)
(* Bounds of the model.                                                    *)
(***************************************************************************)
MaxSteps == 5          \* operations invoked in a session

(***************************************************************************)
(* Canvas size, imported from "@/config" (the values are not part of the   *)
(* reviewed sources; any even numbers behave alike).                       *)
(***************************************************************************)
CANVAS_WIDTH == 8
CANVAS_HEIGHT == 6

(***************************************************************************)
(* Values.                                                                 *)
(***************************************************************************)
\* JavaScript null (useState<...|null>(null)).
Null == <<>>
\* null in the cell of the persona type, whose other values are strings
NoType == "(null)"

\* A node identifier is a number or a string; === distinguishes the two.
NumId(k) == [kind |-> "num", num |-> k, str |-> ""]
StrId(s) == [kind |-> "str", num |-> 0, str |-> s]

\* String.prototype.includes
includes(s, sub) ==
    \E i \in 1..(Len(s) - Len(sub) + 1) : SubSeq(s, i, i + Len(sub) - 1) = sub

\* `${length}` : number to decimal string
numToString(k) == ToString(k)

\* (id ?? 0) + 1 : numeric addition on a number, concatenation on a string.
idPlusOne(id) ==
    IF id.kind = "num" THEN NumId(id.num + 1)
    ELSE StrId(id.str \o numToString(1))

(***************************************************************************)
(* The heap of node data objects: heap[r] is the object at reference r.    *)
(* References are numbered in the order in which the store's cells reach   *)
(* them (nodes, then the edit buffer, then the persona); an object nothing *)
(* reaches is gone.  The numbering is not observable by the program.       *)
(***************************************************************************)
\* the data references of a sequence of nodes, in order
SeqRefs(ns) == [i \in 1..Len(ns) |-> ns[i].data]

\* the data references held by the store's cells, in order, with repeats
HeldRefs(ns, ni, np) ==
    SeqRefs(ns) \o (IF ni = Null THEN <<>> ELSE <<ni.data>>)
                \o (IF np = Null THEN <<>> ELSE SeqRefs(np.nodes))

RECURSIVE Dedup(_, _)
\* s without the elements of seen and without repeats
Dedup(s, seen) ==
    IF s = <<>> THEN <<>>
    ELSE IF Head(s) \in seen THEN Dedup(Tail(s), seen)
    ELSE <<Head(s)>> \o Dedup(Tail(s), seen \cup {Head(s)})

\* position of reference r in the duplicate-free sequence order
IndexOf(order, r) == CHOOSE k \in 1..Len(order) : order[k] = r

\* node n with its data reference renumbered
Renumber(n, order) ==
    [id |-> n.id, data |-> IndexOf(order, n.data), type |-> n.type,
     position |-> n.position]

\* a reference for a newly created object: one not in the heap
FreshRef(h) == Len(h) + 1

\* k references for newly created objects
FreshRefs(h, k) == [i \in 1..k |-> Len(h) + i]

\* h with the object d stored at the fresh reference FreshRef(h)
HeapNew(h, d) == Append(h, d)

(***************************************************************************)
(* Inputs.  A literal is a node as a caller writes it, its data inline;    *)
(* the store receives it as a new object.                                  *)
(***************************************************************************)
Lit(id, label, name, type, x, y) ==
    [id |-> id, data |-> [label |-> label, name |-> name], type |-> type,
     position |-> [x |-> x, y |-> y]]

\* an edge as the rendering library holds it: id, source, target and
\* whatever else the caller put on it
PlainEdge(id, s, t) == [id |-> id, source |-> s, target |-> t]
RichEdge(id, s, t) ==
    [id |-> id, source |-> s, target |-> t, animated |-> TRUE, label |-> "link"]

\* NetworkTopology values handed to setNodePersonaFunc
StarTopology ==
    [type |-> "star",
     nodePersona |->
       [nodes |-> << Lit(StrId("1"), "one", "hub", "input", 0, 0),
                     Lit(StrId("2"), "two", "leaf", "draggable", 2, 0) >>,
        edges |-> << RichEdge("e1", StrId("2"), StrId("1")),
                     PlainEdge("e2", StrId("2"), StrId("2")) >>]]

ChainTopology ==
    [type |-> "chain",
     nodePersona |->
       [nodes |-> << Lit(NumId(1), "first", "head", "draggable", 0, 2) >>,
        edges |-> << RichEdge("e1", NumId(1), NumId(1)) >>]]

Topologies == {StarTopology, ChainTopology}

\* nodes of its own that a caller may hand to addNode / editNode / deleteNode
ArgNodes == { Lit(StrId("c"), "gamma", "C", "draggable", 4, 4) }

\* arguments of updateNodeInfo
EditProps == {"label"}
EditValues == {"edited"}

(***************************************************************************)
(* The store.                                                              *)
(***************************************************************************)
VARIABLES
    isDialogOpen,       \* useState<boolean>(false)
    showGraph,          \* useState<boolean>(false)
    nodes,              \* useNodesState([]) : sequence of node objects
    edges,              \* useEdgesState([]) : sequence of edges
    nodePersonaType,    \* useState<NodePersonaType | null>(null)
    nodePersona,        \* useState<NodePersona | null>(defaultNodePersona)
    nodeInfo,           \* useState<Node | null>(null) : the edit buffer
    heap,               \* the data objects the nodes above refer to
    steps,              \* how many operations the session has invoked so far
    call,               \* the last operation invoked, and how it ended
    pre                 \* what the store held when that operation was invoked

store == <<isDialogOpen, showGraph, nodes, edges, nodePersonaType,
           nodePersona, nodeInfo, heap>>
vars == <<isDialogOpen, showGraph, nodes, edges, nodePersonaType,
          nodePersona, nodeInfo, heap, steps, call, pre>>

\* a node object built from a literal, its data stored at reference r
NodeAt(lit, r) ==
    [id |-> lit.id, data |-> r, type |-> lit.type, position |-> lit.position]

\* a node with its data read through the heap
NodeView(n, h) ==
    [id |-> n.id, data |-> h[n.data], type |-> n.type, position |-> n.position]

NodesView(ns, h) == [i \in 1..Len(ns) |-> NodeView(ns[i], h)]

InfoView(ni, h) == IF ni = Null THEN Null ELSE NodeView(ni, h)

PersonaView(np, h) ==
    IF np = Null THEN Null
    ELSE [nodes |-> NodesView(np.nodes, h), edges |-> np.edges]

\* what a consumer of the context reads
Snapshot ==
    [nodes |-> NodesView(nodes, heap),
     edges |-> edges,
     isDialogOpen |-> isDialogOpen,
     showGraph |-> showGraph,
     nodePersonaType |-> nodePersonaType,
     nodePersona |-> PersonaView(nodePersona, heap),
     nodeInfo |-> InfoView(nodeInfo, heap)]

\* records the invocation: operation, argument, whether it threw, and the
\* edit it belongs to (see EditBegun)
Observe(op, arg, threw, edit) ==
    /\ steps < MaxSteps
    /\ steps' = steps + 1
    /\ pre' = Snapshot
    /\ call' = [op |-> op, arg |-> arg, threw |-> threw, edit |-> edit]

\* editNode(nodes[i]) begins an edit: the node collection as it is then, the
\* position of the node, and what updateNodeInfo wrote last (nothing yet)
EditBegun(i) ==
    [nodes |-> NodesView(nodes, heap), index |-> i, written |-> Null]

\* the edit that the last call began or continued, if it did
EditInProgress ==
    IF call.op \in {"editNode", "updateNodeInfo"} THEN call.edit ELSE Null

\* the edit in progress after updateNodeInfo(nodeProperty, value)
EditWritten(nodeProperty, value) ==
    IF EditInProgress = Null THEN Null
    ELSE [EditInProgress EXCEPT !.written = <<nodeProperty, value>>]

\* the node objects of a sequence of literals, the i-th at reference rs[i]
Materialize(lits, rs) == [i \in 1..Len(lits) |-> NodeAt(lits[i], rs[i])]

\* the heap h with the data of the literals stored at fresh references
StoreData(h, lits) == h \o [i \in 1..Len(lits) |-> lits[i].data]

\* the NodePersona object of a topology, its nodes at the references rs
PersonaAt(topology, rs) ==
    [nodes |-> Materialize(topology.nodePersona.nodes, rs),
     edges |-> topology.nodePersona.edges]

\* the new values of the cells that hold node objects, and of the heap
Commit(ns, ni, np, h) ==
    LET order == Dedup(HeldRefs(ns, ni, np), {}) IN
    /\ nodes' = [i \in 1..Len(ns) |-> Renumber(ns[i], order)]
    /\ nodeInfo' = IF ni = Null THEN Null ELSE Renumber(ni, order)
    /\ nodePersona' =
          IF np = Null THEN Null
          ELSE [nodes |-> [i \in 1..Len(np.nodes) |-> Renumber(np.nodes[i], order)],
                edges |-> np.edges]
    /\ heap' = [k \in 1..Len(order) |-> h[order[k]]]

\* defaultNodePersona of "@/app/data"
defaultNodePersona == StarTopology

Init ==
    /\ isDialogOpen = FALSE
    /\ showGraph = FALSE
    /\ nodes = <<>>
    /\ edges = <<>>
    /\ nodePersonaType = NoType
    /\ nodePersona =
          PersonaAt(defaultNodePersona,
                    FreshRefs(<<>>, Len(defaultNodePersona.nodePersona.nodes)))
    /\ heap = StoreData(<<>>, defaultNodePersona.nodePersona.nodes)
    /\ nodeInfo = Null
    /\ steps = 0
    /\ call = [op |-> "init", arg |-> Null, threw |-> FALSE, edit |-> Null]
    /\ pre = Null

(***************************************************************************)
(* Operations.                                                             *)
(***************************************************************************)
\* const openDialog = () => setIsDialogOpen(true)
openDialog ==
    /\ Observe("openDialog", Null, FALSE, Null)
    /\ isDialogOpen' = TRUE
    /\ UNCHANGED <<showGraph, nodes, edges, nodePersonaType, nodePersona,
                   nodeInfo, heap>>

\* closeDialog without its setNodeInfo(null)
closeDialog_keepsBuffer ==
    /\ Observe("closeDialog", Null, FALSE, EditInProgress)
    /\ isDialogOpen' = FALSE
    /\ UNCHANGED <<showGraph, nodes, edges, nodePersonaType, nodePersona,
                   nodeInfo, heap>>

\* closeDialog: setIsDialogOpen(false); setNodeInfo(null)
closeDialog ==
    /\ Observe("closeDialog", Null, FALSE, EditInProgress)
    /\ isDialogOpen' = FALSE
    /\ Commit(nodes, Null, nodePersona, heap)
    /\ UNCHANGED <<showGraph, edges, nodePersonaType>>

\* a copy that turns the order of the edges around
copyEdges_reversed(edge) == [i \in 1..Len(edge) |-> edge[Len(edge) + 1 - i]]

\* setNodeEdges: the argument of setEdges, [...edge]
copyEdges(edge) == [i \in 1..Len(edge) |-> edge[i]]

\* setNodePersonaFunc({type, nodePersona})
setNodePersonaFunc(topology) ==
    LET lits == topology.nodePersona.nodes
        persona == PersonaAt(topology, FreshRefs(heap, Len(lits)))
    IN  /\ Observe("setNodePersonaFunc", topology, FALSE, Null)
        /\ nodePersonaType' = topology.type
        /\ edges' = copyEdges(persona.edges)
        /\ Commit(persona.nodes, nodeInfo, persona, StoreData(heap, lits))
        /\ UNCHANGED <<isDialogOpen, showGraph>>

\* a showGraphFunc that toggles: setShowGraph(!showGraph)
showGraphFunc_toggles ==
    /\ Observe("showGraphFunc", Null, FALSE, Null)
    /\ showGraph' = ~showGraph
    /\ UNCHANGED <<isDialogOpen, nodes, edges, nodePersonaType, nodePersona,
                   nodeInfo, heap>>

\* showGraphFunc: setShowGraph(true)
showGraphFunc ==
    /\ Observe("showGraphFunc", Null, FALSE, Null)
    /\ showGraph' = TRUE
    /\ UNCHANGED <<isDialogOpen, nodes, edges, nodePersonaType, nodePersona,
                   nodeInfo, heap>>

\* nodes.filter(node => node.data?.label.includes("new node")).length
newNodesNumber(ns, h) ==
    Cardinality({i \in 1..Len(ns) : includes(h[ns[i].data].label, "new node")})

\* createNewNode, for a non-empty node collection
createNewNode(ns, h) ==
    LET number == newNodesNumber(ns, h)
        id == idPlusOne(ns[Len(ns)].id)
    IN  Lit(id,
            "new node " \o numToString(number),
            "new node " \o numToString(number),
            "draggable",
            CANVAS_WIDTH \div 2,
            CANVAS_HEIGHT \div 2)

\* [newNode, ...nodes]
appendNode_prepends(ns, newNode) == <<newNode>> \o ns

\* [...nodes, newNode]
appendNode(ns, newNode) == Append(ns, newNode)

\* a body of addNode without its openDialog()
addNodeBody_staysClosed(newNode, op, arg) ==
    LET added == NodeAt(newNode, FreshRef(heap)) IN
    /\ Observe(op, arg, FALSE, Null)
    /\ Commit(appendNode(nodes, added), added, nodePersona,
              HeapNew(heap, newNode.data))
    /\ UNCHANGED <<isDialogOpen, showGraph, edges, nodePersonaType>>

\* the body of addNode for the node newNode (a literal: a new object)
addNodeBody(newNode, op, arg) ==
    LET added == NodeAt(newNode, FreshRef(heap)) IN
    /\ Observe(op, arg, FALSE, Null)
    /\ Commit(appendNode(nodes, added), added, nodePersona,
              HeapNew(heap, newNode.data))
    /\ isDialogOpen' = TRUE
    /\ UNCHANGED <<showGraph, edges, nodePersonaType>>

\* an addNode() that reads nodes[nodes.length - 1]?.id, so that on an empty
\* collection the identifier is (undefined ?? 0) + 1 and the node is added
addNodeDefault_optionalChaining ==
    IF nodes = <<>>
    THEN addNodeBody(Lit(NumId(1), "new node 0", "new node 0", "draggable",
                         CANVAS_WIDTH \div 2, CANVAS_HEIGHT \div 2),
                     "addNode", Null)
    ELSE addNodeBody(createNewNode(nodes, heap), "addNode", Null)

\* addNode() : the node is synthesized by createNewNode;
\* on an empty collection nodes[nodes.length - 1]!.id throws a TypeError
\* before any setter ran
addNodeDefault ==
    IF nodes = <<>>
    THEN /\ Observe("addNode", Null, TRUE, Null)
         /\ UNCHANGED store
    ELSE addNodeBody(createNewNode(nodes, heap), "addNode", Null)

\* addNode(node)
addNodeSupplied(node) ==
    addNodeBody(node, "addNode", node)

\* an editNode that, like addNode, also appends the node
editNode_appends(i) ==
    /\ Observe("editNode", NodeView(nodes[i], heap), FALSE, EditBegun(i))
    /\ Commit(appendNode(nodes, nodes[i]), nodes[i], nodePersona, heap)
    /\ isDialogOpen' = TRUE
    /\ UNCHANGED <<showGraph, edges, nodePersonaType>>

\* editNode(node), node being the i-th node of the collection
editNode(i) ==
    /\ Observe("editNode", NodeView(nodes[i], heap), FALSE, EditBegun(i))
    /\ Commit(nodes, nodes[i], nodePersona, heap)
    /\ isDialogOpen' = TRUE
    /\ UNCHANGED <<showGraph, edges, nodePersonaType>>

\* {...node, id: `${length}`, data: {label: `${label} duplicate`,
\*                                   name: `${label} duplicate`}}
duplicateOf(node, length) ==
    [id |-> StrId(numToString(length)),
     data |-> [label |-> node.data.label \o " duplicate",
               name |-> node.data.label \o " duplicate"],
     type |-> node.type,
     position |-> node.position]

\* duplicateNode(node), node being the i-th node of the collection
duplicateNode(i) ==
    LET node == NodeView(nodes[i], heap) IN
    /\ addNodeBody(duplicateOf(node, Len(nodes)), "duplicateNode", node)

\* duplNode.data[nodeProperty] = value, duplNode = {...nodeInfo} being a
\* copy of the node object that holds the same data object as nodeInfo
writeData(h, ni, nodeProperty, value) ==
    [h EXCEPT ![ni.data] = [p \in (DOMAIN h[ni.data]) \cup {nodeProperty} |->
                              IF p = nodeProperty THEN value ELSE h[ni.data][p]]]

\* updateNodeInfo(nodeProperty, value)
updateNodeInfo(nodeProperty, value) ==
    /\ Observe("updateNodeInfo", <<nodeProperty, value>>, FALSE,
               EditWritten(nodeProperty, value))
    /\ IF nodeInfo = Null
       THEN UNCHANGED heap
       ELSE heap' = writeData(heap, nodeInfo, nodeProperty, value)
    /\ UNCHANGED <<isDialogOpen, showGraph, nodes, edges, nodePersonaType,
                   nodePersona, nodeInfo>>

\* a findIndex that answers the first position when no node matches
findIndex_defaultsToFirst(ns, id) ==
    IF \E i \in 1..Len(ns) : ns[i].id = id
    THEN CHOOSE i \in 1..Len(ns) :
            /\ ns[i].id = id
            /\ \A j \in 1..(i - 1) : ns[j].id # id
    ELSE IF ns = <<>> THEN 0 ELSE 1

\* nodes.findIndex((node) => node.id === id), 0 standing for -1
findIndex(ns, id) ==
    IF \E i \in 1..Len(ns) : ns[i].id = id
    THEN CHOOSE i \in 1..Len(ns) :
            /\ ns[i].id = id
            /\ \A j \in 1..(i - 1) : ns[j].id # id
    ELSE 0

\* newList[nodeIndex] = nodeInfo
replaceAt(ns, nodeIndex, ni) == [ns EXCEPT ![nodeIndex] = ni]

\* ({source, target}) => ({source, target}), which loses the id
stripEdge_losesId(e) == [source |-> e.source, target |-> e.target]

\* ({source, target, id}) => ({id, source: source, target: target})
stripEdge(e) == [id |-> e.id, source |-> e.source, target |-> e.target]

\* newEdges.map(...)
strippedEdges(es) == [i \in 1..Len(es) |-> stripEdge(es[i])]

\* saveEditedNode
saveEditedNode ==
    LET nodeIndex == IF nodeInfo = Null THEN 0 ELSE findIndex(nodes, nodeInfo.id)
    IN  /\ Observe("saveEditedNode", Null, FALSE, EditInProgress)
        /\ IF nodeInfo # Null /\ nodeIndex # 0
           THEN /\ Commit(replaceAt(nodes, nodeIndex, nodeInfo), Null,
                          nodePersona, heap)
                /\ edges' = strippedEdges(edges)
                /\ isDialogOpen' = FALSE
                /\ UNCHANGED <<showGraph, nodePersonaType>>
           ELSE UNCHANGED store

\* nodes.filter(({ id }) => id === node.id)
nodesWithout_keepsMatches(ns, id) == SelectSeq(ns, LAMBDA n : n.id = id)

\* nodes.filter(({ id }) => id !== node.id)
nodesWithout(ns, id) == SelectSeq(ns, LAMBDA n : n.id # id)

\* edges.filter(({source}) => !(source === node.id))
edgesWithout_sourceOnly(es, id) == SelectSeq(es, LAMBDA e : ~(e.source = id))

\* edges.filter(({source, target}) => !(source === node.id || target === node.id))
edgesWithout(es, id) ==
    SelectSeq(es, LAMBDA e : ~(e.source = id \/ e.target = id))

\* a deleteNode that also drops the edit of the deleted node
deleteNode_closes(node) ==
    /\ Observe("deleteNode", node, FALSE, Null)
    /\ edges' = edgesWithout(edges, node.id)
    /\ Commit(nodesWithout(nodes, node.id),
              IF nodeInfo # Null /\ nodeInfo.id = node.id THEN Null ELSE nodeInfo,
              nodePersona, heap)
    /\ isDialogOpen' = IF nodeInfo # Null /\ nodeInfo.id = node.id
                       THEN FALSE ELSE isDialogOpen
    /\ UNCHANGED <<showGraph, nodePersonaType>>

\* deleteNode(node)
deleteNode(node) ==
    /\ Observe("deleteNode", node, FALSE, Null)
    /\ edges' = edgesWithout(edges, node.id)
    /\ Commit(nodesWithout(nodes, node.id), nodeInfo, nodePersona, heap)
    /\ UNCHANGED <<isDialogOpen, showGraph, nodePersonaType>>

(***************************************************************************)
(* The store under every operation of the context.                         *)
(***************************************************************************)
\* the nodes a consumer reads from the context
HeldNodes == {NodeView(nodes[i], heap) : i \in 1..Len(nodes)}

Next ==
    \/ openDialog
    \/ closeDialog
    \/ showGraphFunc
    \/ \E t \in Topologies : setNodePersonaFunc(t)
    \/ addNodeDefault
    \/ \E n \in ArgNodes : addNodeSupplied(n)
    \/ \E i \in 1..Len(nodes) : editNode(i)
    \/ \E i \in 1..Len(nodes) : duplicateNode(i)
    \/ \E p \in EditProps, v \in EditValues : updateNodeInfo(p, v)
    \/ saveEditedNode
    \/ \E n \in HeldNodes \cup ArgNodes : deleteNode(n)

Spec == Init /\ [][Next]_vars

(***************************************************************************)
(* The store once a persona is loaded, under the editing operations.       *)
(***************************************************************************)
\* what the store holds before the first operation
InitialSnapshot ==
    [nodes |-> <<>>,
     edges |-> <<>>,
     isDialogOpen |-> FALSE,
     showGraph |-> FALSE,
     nodePersonaType |-> NoType,
     nodePersona |-> defaultNodePersona.nodePersona,
     nodeInfo |-> Null]

\* the store after setNodePersonaFunc(topology) as its first operation
Loaded(topology) ==
    LET lits == topology.nodePersona.nodes
        persona == PersonaAt(topology, FreshRefs(<<>>, Len(lits)))
    IN  /\ isDialogOpen = FALSE
        /\ showGraph = FALSE
        /\ nodes = persona.nodes
        /\ edges = copyEdges(persona.edges)
        /\ nodePersonaType = topology.type
        /\ nodePersona = persona
        /\ nodeInfo = Null
        /\ heap = StoreData(<<>>, lits)
        /\ steps = 1
        /\ call = [op |-> "setNodePersonaFunc", arg |-> topology,
                   threw |-> FALSE, edit |-> Null]
        /\ pre = InitialSnapshot

InitLoaded == \E t \in Topologies : Loaded(t)

\* addNode(), duplicateNode, editNode, updateNodeInfo, saveEditedNode,
\* deleteNode of a node of the collection, closeDialog
NextEdit ==
    \/ addNodeDefault
    \/ \E i \in 1..Len(nodes) : duplicateNode(i)
    \/ \E i \in 1..Len(nodes) : editNode(i)
    \/ \E p \in EditProps, v \in EditValues : updateNodeInfo(p, v)
    \/ saveEditedNode
    \/ \E n \in HeldNodes : deleteNode(n)
    \/ closeDialog

SpecEdit == InitLoaded /\ [][NextEdit]_vars

\* addNode(), duplicateNode, saveEditedNode, deleteNode of a node of the
\* collection
NextUnique ==
    \/ addNodeDefault
    \/ \E i \in 1..Len(nodes) : duplicateNode(i)
    \/ saveEditedNode
    \/ \E n \in HeldNodes : deleteNode(n)

SpecUnique == InitLoaded /\ [][NextUnique]_vars

(***************************************************************************)
(* Access to the store through the context.                                *)
(***************************************************************************)
\* JavaScript undefined, which === tells from null
Undefined == [undefined |-> TRUE]

\* React.createContext<NodeGraphContext>(null!) : the default value
nodeFlowContext == Null

\* React.useContext(nodeFlowContext): the provider's value for a caller that
\* a provider encloses, the default value for any other caller
useContext(enclosed) == IF enclosed THEN Snapshot ELSE nodeFlowContext

\* useNodeFlowContext(): throws if the context === undefined, else returns it
useNodeFlowContext(enclosed) ==
    LET context == useContext(enclosed)
        threw == (context = Undefined)
    IN  /\ steps < MaxSteps
        /\ steps' = steps + 1
        /\ pre' = Snapshot
        /\ call' = [op |-> "useNodeFlowContext", arg |-> enclosed,
                    threw |-> threw, edit |-> Null,
                    result |-> IF threw THEN Undefined ELSE context]
        /\ UNCHANGED store

\* some operations of the store, and callers inside and outside the provider
NextAccess ==
    \/ \E enclosed \in BOOLEAN : useNodeFlowContext(enclosed)
    \/ \E t \in Topologies : setNodePersonaFunc(t)
    \/ addNodeDefault
    \/ openDialog
    \/ closeDialog
    \/ showGraphFunc

SpecAccess == Init /\ [][NextAccess]_vars

(***************************************************************************)
(* Two operations invoked from one event handler.  Both are the functions  *)
(* of the same render, so both read the cells as that render saw them, and *)
(* each setter call replaces the value its cell will have at the next      *)
(* render.                                                                 *)
(***************************************************************************)
\* the nodes an event handler hands to addNode
BatchNodes ==
    { Lit(StrId("a"), "alpha", "A", "draggable", 1, 1),
      Lit(StrId("b"), "beta", "B", "draggable", 2, 2) }

\* a call setX(value) of the setter of a cell
SetCall(cell, value) == [cell |-> cell, value |-> value]

\* addNode(newNode), newNode at reference r:
\* setNodes([...nodes, newNode]); setNodeInfo(newNode); openDialog()
addNodeCalls(newNode, r) ==
    << SetCall("nodes", appendNode(nodes, NodeAt(newNode, r))),
       SetCall("nodeInfo", NodeAt(newNode, r)),
       SetCall("isDialogOpen", TRUE) >>

\* deleteNode(node): setEdges(newEdges); setNodes(updatedNodes)
deleteNodeCalls(node) ==
    << SetCall("edges", edgesWithout(edges, node.id)),
       SetCall("nodes", nodesWithout(nodes, node.id)) >>

\* the value of a cell at the next render: the value of the last setter
\* call on it, or its current value when no setter was called
LastSet(calls, cell, current) ==
    IF \E k \in 1..Len(calls) : calls[k].cell = cell
    THEN calls[CHOOSE k \in 1..Len(calls) :
                  /\ calls[k].cell = cell
                  /\ \A j \in (k + 1)..Len(calls) : calls[j].cell # cell].value
    ELSE current

\* the render that follows an event handler which made the setter calls
sameEvent(op, arg, calls, h) ==
    /\ Observe(op, arg, FALSE, Null)
    /\ Commit(LastSet(calls, "nodes", nodes),
              LastSet(calls, "nodeInfo", nodeInfo), nodePersona, h)
    /\ edges' = LastSet(calls, "edges", edges)
    /\ isDialogOpen' = LastSet(calls, "isDialogOpen", isDialogOpen)
    /\ UNCHANGED <<showGraph, nodePersonaType>>

\* addNode(a); addNode(b) in one event handler
addNodeThenAddNode(a, b) ==
    sameEvent("addNode;addNode", [first |-> a, second |-> b],
              addNodeCalls(a, FreshRef(heap))
                  \o addNodeCalls(b, FreshRef(heap) + 1),
              HeapNew(HeapNew(heap, a.data), b.data))

\* addNode(a); deleteNode(c) in one event handler
addNodeThenDeleteNode(a, c) ==
    sameEvent("addNode;deleteNode", [first |-> a, second |-> c],
              addNodeCalls(a, FreshRef(heap)) \o deleteNodeCalls(c),
              HeapNew(heap, a.data))

NextBatch ==
    \/ \E a, b \in BatchNodes : addNodeThenAddNode(a, b)
    \/ \E a \in BatchNodes, c \in HeldNodes : addNodeThenDeleteNode(a, c)
    \/ \E n \in BatchNodes : addNodeSupplied(n)
    \/ \E n \in HeldNodes : deleteNode(n)
    \/ closeDialog

SpecBatch == InitLoaded /\ [][NextBatch]_vars


(***************************************************************************)
(* Properties.  `pre` is the store as the last operation found it, `call`  *)
(* that operation, and the variables are the store as it left it.          *)
(***************************************************************************)
Now == NodesView(nodes, heap)

IdsOf(ns) == {ns[i].id : i \in 1..Len(ns)}

EdgeFields == {"id", "source", "target"}

\* saveEditedNode found an edit buffer and a node with its identifier
SaveSucceeded ==
    /\ call.op = "saveEditedNode"
    /\ pre.nodeInfo # Null
    /\ pre.nodeInfo.id \in IdsOf(pre.nodes)

\* C1: referential integrity: in every state reached from the empty store
\* by loading well-formed personas and by any sequence of addNode,
\* duplicateNode, editNode, updateNodeInfo, saveEditedNode, deleteNode,
\* openDialog and closeDialog calls, the source and the target of every edge
\* of the edge collection are identifiers of nodes of the node collection.
C1_ReferentialIntegrity ==
    \A i \in 1..Len(edges) :
        /\ edges[i].source \in IdsOf(nodes)
        /\ edges[i].target \in IdsOf(nodes)

\* a deleteNode of a node that an edge pointed to left edges behind
C1_Witness ==
    /\ call.op = "deleteNode"
    /\ \E i \in 1..Len(pre.edges) : pre.edges[i].target = call.arg.id
    /\ edges # <<>>

\* C2: after deleteNode(n) no node has the identifier n.id and no edge has
\* it as source or target; the nodes with another identifier, and the edges
\* that touch n.id at neither end, are kept unchanged and in their order.
C2_DeleteNodeCascades ==
    call.op = "deleteNode" =>
        /\ call.arg.id \notin IdsOf(nodes)
        /\ \A i \in 1..Len(edges) :
              edges[i].source # call.arg.id /\ edges[i].target # call.arg.id
        /\ Now = SelectSeq(pre.nodes, LAMBDA n : n.id # call.arg.id)
        /\ edges = SelectSeq(pre.edges, LAMBDA e : e.source # call.arg.id
                                                   /\ e.target # call.arg.id)

\* a deleteNode removed a node and an edge, and kept a node and an edge
C2_Witness ==
    /\ call.op = "deleteNode"
    /\ Len(nodes) < Len(pre.nodes) /\ Len(nodes) > 0
    /\ Len(edges) < Len(pre.edges) /\ Len(edges) > 0

\* C3: updateNodeInfo leaves the node collection, the data of its nodes
\* included, as it found it; and closeDialog after editNode(n) and any
\* number of updateNodeInfo calls leaves the node collection as it was
\* before editNode(n).
C3_UpdateTouchesBufferOnly ==
    /\ call.op = "updateNodeInfo" => Now = pre.nodes
    /\ (call.op = "closeDialog" /\ call.edit # Null) => Now = call.edit.nodes

\* C4: saveEditedNode after editNode(n) and an updateNodeInfo(p, v) keeps the
\* length of the node collection and its sequence of identifiers, has the
\* node at n's position carry v as p, leaves the nodes at the other positions
\* as they were, closes the dialog and clears the edit buffer.
C4_SaveCommitsAtPosition ==
    (call.op = "saveEditedNode" /\ call.edit # Null /\ call.edit.written # Null) =>
        LET before == call.edit.nodes
            at == call.edit.index
            p == call.edit.written[1]
            v == call.edit.written[2]
        IN  /\ Len(Now) = Len(before)
            /\ \A j \in 1..Len(before) : Now[j].id = before[j].id
            /\ Now[at].data[p] = v
            /\ \A j \in 1..Len(before) : j # at => Now[j] = before[j]
            /\ isDialogOpen = FALSE
            /\ nodeInfo = Null

\* C5: a successful saveEditedNode leaves as many edges as it found, in the
\* same order, each with the id, source and target it had and with no other
\* field.
C5_SaveStripsEdges ==
    SaveSucceeded =>
        /\ Len(edges) = Len(pre.edges)
        /\ \A i \in 1..Len(edges) :
              /\ DOMAIN edges[i] = EdgeFields
              /\ edges[i].id = pre.edges[i].id
              /\ edges[i].source = pre.edges[i].source
              /\ edges[i].target = pre.edges[i].target

\* a successful saveEditedNode found an edge that carried other fields
C5_Witness ==
    /\ SaveSucceeded
    /\ \E i \in 1..Len(pre.edges) : DOMAIN pre.edges[i] # EdgeFields

\* C6: saveEditedNode with an empty edit buffer, or with an edit buffer whose
\* identifier no node has, changes neither nodes nor edges nor the
\* dialog-open flag nor the edit buffer, and raises no error.
C6_SaveWithoutTargetIsNoOp ==
    (call.op = "saveEditedNode" /\ ~SaveSucceeded) =>
        /\ Now = pre.nodes
        /\ edges = pre.edges
        /\ isDialogOpen = pre.isDialogOpen
        /\ InfoView(nodeInfo, heap) = pre.nodeInfo
        /\ call.threw = FALSE

\* saveEditedNode found an edit buffer whose node was no longer there
C6_Witness ==
    /\ call.op = "saveEditedNode"
    /\ pre.nodeInfo # Null
    /\ pre.nodeInfo.id \notin IdsOf(pre.nodes)
    /\ pre.nodes # <<>>

\* C7: closeDialog leaves the dialog-open flag false and the edit buffer
\* empty, and the node and edge collections as it found them.
C7_CloseDialogClears ==
    call.op = "closeDialog" =>
        /\ isDialogOpen = FALSE
        /\ nodeInfo = Null
        /\ Now = pre.nodes
        /\ edges = pre.edges

\* closeDialog found the dialog open on an edit, with nodes and edges held
C7_Witness ==
    /\ call.op = "closeDialog"
    /\ pre.isDialogOpen
    /\ pre.nodeInfo # Null
    /\ pre.nodes # <<>>
    /\ pre.edges # <<>>

\* C8: addNode on a non-empty node collection appends exactly one node after
\* the nodes it found, which stay as they were; the dialog is open and the
\* edit buffer is the appended node; a node the caller supplied is the node
\* appended.
C8_AddNodeAppends ==
    (call.op = "addNode" /\ pre.nodes # <<>>) =>
        /\ ~call.threw
        /\ Len(nodes) = Len(pre.nodes) + 1
        /\ SubSeq(Now, 1, Len(pre.nodes)) = pre.nodes
        /\ isDialogOpen = TRUE
        /\ nodeInfo = nodes[Len(nodes)]
        /\ call.arg # Null => Now[Len(nodes)] = call.arg

\* addNode() synthesized a node for a collection that held nodes
C8_Witness ==
    /\ call.op = "addNode"
    /\ call.arg = Null
    /\ Len(pre.nodes) >= 2
    /\ Len(nodes) = Len(pre.nodes) + 1

\* C9: after setNodePersonaFunc({type, nodePersona}) the node collection is
\* nodePersona.nodes, the edge collection equals nodePersona.edges element
\* for element, and the recorded persona type and persona are type and
\* nodePersona, whatever the store held before.
C9_LoadPersonaReplaces ==
    call.op = "setNodePersonaFunc" =>
        /\ Now = call.arg.nodePersona.nodes
        /\ nodes = nodePersona.nodes
        /\ Len(edges) = Len(call.arg.nodePersona.edges)
        /\ \A i \in 1..Len(edges) : edges[i] = call.arg.nodePersona.edges[i]
        /\ nodePersonaType = call.arg.type
        /\ PersonaView(nodePersona, heap) = call.arg.nodePersona

\* setNodePersonaFunc replaced other nodes and edges by a persona that has
\* several edges
C9_Witness ==
    /\ call.op = "setNodePersonaFunc"
    /\ pre.nodes # <<>>
    /\ pre.nodes # Now
    /\ pre.edges # edges
    /\ Len(edges) >= 2

\* C10: node identifiers are unique: from a loaded persona with pairwise
\* distinct identifiers, after any sequence of addNode(), duplicateNode,
\* saveEditedNode and deleteNode calls no two nodes of the node collection
\* have the same identifier.
C10_UniqueIds ==
    \A i, j \in 1..Len(nodes) : i # j => nodes[i].id # nodes[j].id

\* C11: useNodeFlowContext called where no provider encloses the caller
\* throws instead of returning a value.
C11_AccessOutsideProviderThrows ==
    (call.op = "useNodeFlowContext" /\ call.arg = FALSE) => call.threw

\* C12: the graph-visibility flag is false initially, showGraphFunc sets it
\* to true and leaves the dialog-open flag alone, and every other operation
\* leaves the graph-visibility flag as it found it (so once true it stays
\* true).
C12_ShowGraphOneWay ==
    /\ call.op = "init" => showGraph = FALSE
    /\ call.op = "showGraphFunc" =>
          /\ showGraph = TRUE
          /\ isDialogOpen = pre.isDialogOpen
    /\ call.op \notin {"init", "showGraphFunc"} =>
          /\ showGraph = pre.showGraph
          /\ pre.showGraph => showGraph

\* closeDialog closed the dialog while the graph was shown, and it still is
C12_Witness ==
    /\ call.op = "closeDialog"
    /\ pre.isDialogOpen
    /\ pre.showGraph
    /\ showGraph
    /\ ~isDialogOpen

\* C13: editNode(n) opens the dialog and makes n the edit buffer, and leaves
\* the node collection and the edge collection as it found them.
C13_EditNodeDoesNotAppend ==
    call.op = "editNode" =>
        /\ isDialogOpen = TRUE
        /\ InfoView(nodeInfo, heap) = call.arg
        /\ Now = pre.nodes
        /\ edges = pre.edges

\* editNode took a node of a collection with edges while the dialog was
\* closed
C13_Witness ==
    /\ call.op = "editNode"
    /\ ~pre.isDialogOpen
    /\ pre.nodeInfo = Null
    /\ Len(pre.nodes) >= 2
    /\ pre.edges # <<>>

\* the number an identifier stands for, if it is a number or a string of
\* decimal digits (Number(id)); -1 for any other string
Digits == "0123456789"

RECURSIVE decimalValue(_, _)
\* the value of the digit string s after the value acc of the digits read
decimalValue(s, acc) ==
    IF Len(s) = 0 THEN acc
    ELSE IF \E d \in 0..9 : SubSeq(Digits, d + 1, d + 1) = SubSeq(s, 1, 1)
    THEN LET d == CHOOSE d \in 0..9 : SubSeq(Digits, d + 1, d + 1) = SubSeq(s, 1, 1)
         IN  decimalValue(SubSeq(s, 2, Len(s)), 10 * acc + d)
    ELSE -1

numericValue(id) ==
    IF id.kind = "num" THEN id.num
    ELSE IF Len(id.str) = 0 THEN -1 ELSE decimalValue(id.str, 0)

\* C14: duplicateNode(n) on a collection of length L appends one node with
\* n's position and type, the identifier L as a string, n's label followed
\* by " duplicate" as label and n's name followed by " duplicate" as name;
\* the nodes it found, n among them, stay as they were; the dialog is open
\* and the edit buffer is the clone.
C14_DuplicateNodeClones ==
    call.op = "duplicateNode" =>
        LET n == call.arg
            L == Len(pre.nodes)
            clone == Now[Len(Now)]
        IN  /\ Len(Now) = L + 1
            /\ SubSeq(Now, 1, L) = pre.nodes
            /\ clone.position = n.position
            /\ clone.type = n.type
            /\ clone.id = StrId(numToString(L))
            /\ clone.data.label = n.data.label \o " duplicate"
            /\ clone.data.name = n.data.name \o " duplicate"
            /\ isDialogOpen = TRUE
            /\ nodeInfo = nodes[Len(nodes)]

\* C15: the node addNode() synthesizes for a non-empty collection whose last
\* identifier is the number k, or the string of the number k, has the
\* identifier k + 1, and has as label and name "new node " followed by the
\* count of the nodes found whose label contains "new node".
C15_DefaultNodeIdAndLabel ==
    (call.op = "addNode" /\ call.arg = Null /\ pre.nodes # <<>>
       /\ numericValue(pre.nodes[Len(pre.nodes)].id) >= 0) =>
        LET added == Now[Len(Now)]
            k == numericValue(pre.nodes[Len(pre.nodes)].id)
            count == Cardinality({i \in 1..Len(pre.nodes) :
                                    includes(pre.nodes[i].data.label, "new node")})
        IN  /\ Len(Now) = Len(pre.nodes) + 1
            /\ numericValue(added.id) = k + 1
            /\ added.data.label = "new node " \o numToString(count)
            /\ added.data.name = "new node " \o numToString(count)

\* C16: addNode() on an empty node collection fails while the default node is
\* synthesized, and nodes, edges, the dialog flag and the edit buffer are
\* the same after the call as before it
C16_AddNodeOnEmptyFailsWhole ==
    (call.op = "addNode" /\ call.arg = Null /\ pre.nodes = <<>>) =>
        /\ call.threw
        /\ Now = pre.nodes
        /\ edges = pre.edges
        /\ isDialogOpen = pre.isDialogOpen
        /\ InfoView(nodeInfo, heap) = pre.nodeInfo

\* addNode() failed on a collection emptied by deletions, an edit pending
C16_Witness ==
    /\ call.op = "addNode" /\ call.arg = Null /\ call.threw
    /\ pre.nodes = <<>>
    /\ pre.nodePersonaType # NoType
    /\ nodeInfo # Null /\ isDialogOpen

\* C17: in every reachable state a non-empty edit buffer implies that the
\* dialog is open
C17_BufferImpliesDialogOpen ==
    nodeInfo # Null => isDialogOpen

\* an edit is pending on a node that was deleted from the collection
C17_Witness ==
    /\ nodeInfo # Null /\ isDialogOpen
    /\ call.op \in {"deleteNode", "updateNodeInfo", "setNodePersonaFunc"}
    /\ nodeInfo.id \notin IdsOf(Now)

\* deleteNode leaves the dialog flag, the edit buffer, the graph flag, the
\* persona and the persona type as they were
DeleteNodeFrame ==
    call.op = "deleteNode" =>
        /\ isDialogOpen = pre.isDialogOpen
        /\ InfoView(nodeInfo, heap) = pre.nodeInfo
        /\ showGraph = pre.showGraph
        /\ PersonaView(nodePersona, heap) = pre.nodePersona
        /\ nodePersonaType = pre.nodePersonaType

\* a saveEditedNode that follows the deletion of the node held in the edit
\* buffer does not put a node with its identifier back
SaveAfterDeleteKeepsDeleted ==
    (/\ call.op = "deleteNode"
     /\ nodeInfo # Null
     /\ nodeInfo.id = call.arg.id
     /\ call'.op = "saveEditedNode")
        => call.arg.id \notin {nodes'[i].id : i \in 1..Len(nodes')}

\* C18: deleteNode(n) changes only nodes and edges, also when n is the node
\* in the edit buffer, and a saveEditedNode that follows such a deletion
\* does not put a node with identifier n.id back into the node collection
C18_DeleteNodeFrameAndNoResurrection ==
    /\ []DeleteNodeFrame
    /\ [][SaveAfterDeleteKeepsDeleted]_vars

\* the node held in the edit buffer was deleted from the collection while
\* the dialog was open
C18_Witness ==
    /\ call.op = "deleteNode"
    /\ pre.nodeInfo # Null
    /\ pre.nodeInfo.id = call.arg.id
    /\ call.arg.id \in IdsOf(pre.nodes)
    /\ pre.isDialogOpen
    /\ nodeInfo # Null
    /\ Len(nodes) < Len(pre.nodes)

\* C19: when two mutating operations are invoked one after the other from
\* the same event (addNode(a) then addNode(b), addNode(a) then
\* deleteNode(c)), the resulting nodes and edges are those of applying the
\* second operation to the result of the first: no update is lost
C19_NoLostUpdate ==
    /\ call.op = "addNode;addNode" =>
          /\ Now = pre.nodes \o <<call.arg.first, call.arg.second>>
          /\ edges = pre.edges
    /\ call.op = "addNode;deleteNode" =>
          /\ Now = nodesWithout(Append(pre.nodes, call.arg.first),
                                call.arg.second.id)
          /\ edges = edgesWithout(pre.edges, call.arg.second.id)
====
